---- MODULE Spec2Model ----
(***************************************************************************)
(* Attendance tracker (src/src/App.tsx): the policy table, the status      *)
(* classifier, the employee collection with its store operations, the      *)
(* localStorage slot the collection is saved to, the load / normalisation  *)
(* / retention filter run at startup, the list of store tags with its own  *)
(* slot, the confirmation dialog of the deletions, and the updater: the    *)
(* settings page, the bridge (src/electron/preload.cjs) and the main       *)
(* process (src/electron/main.cjs and the older file of it).               *)
(*                                                                         *)
(* Encoding.                                                               *)
(*   strings that the code inspects (names, external ids) are sequences of *)
(*     one-character strings, so trim() and digitsOnly() are computed;     *)
(*   the entries of the store-tag list are such sequences too; infraction  *)
(*     categories, the store of an infraction and reasons are opaque;      *)
(*   a calendar date "YYYY-MM-DD" is its day number, InvalidDate is any    *)
(*     text that new Date() cannot parse;                                  *)
(*   a point value is a natural number, NaN is the JavaScript NaN;         *)
(*   ids are integers: crypto.randomUUID() is the counter nextId;          *)
(*   a JSON field is <<>> when it is missing or null and <<v>> otherwise.  *)
(***************************************************************************)
EXTENDS Integers, Sequences, FiniteSets, TLC

VARIABLES
    employees,   \* App state `employees` (App.tsx:417)
    persisted,   \* localStorage[STORAGE_KEY], as a decoded JSON document
    nextId,      \* the next value crypto.randomUUID() returns
    now,         \* wall clock, hours since the epoch, UTC
    tz,          \* offset of the local time zone from UTC, hours
    last,        \* the operation that produced this state
    probe,       \* the last direct call of a policy function, with its result
    stores,      \* App state `stores` (App.tsx:418)
    storesSlot,  \* localStorage[STORES_KEY], as a decoded JSON document
    confirm,     \* App state `confirm` (App.tsx:420), with what its closure sees
    updater      \* SettingsPage state `status`, the host's updater, messages in flight

vars == <<employees, persisted, nextId, now, tz, last, probe, stores, storesSlot,
          confirm, updater>>

\* ------------------------------------------------------------------ bounds
MaxEmployees == 2
MaxInfractions == 3
MaxNewIds == 2
MaxStrLen == 1
MaxTypes == 3
MaxTotal == 60
MaxStoredId == 4
MaxTicks == 2
MaxStores == 3

\* messages on their way from the host to the renderer
MaxChannel == 2

\* --------------------------------------------------------------- constants
AUTO_REMOVE_DAYS == 180

NaN == 0 - 1
InvalidDate == 0 - 1

InfractionTypeSeq ==
    << "No Call / No Show",
       "Tardy (16-59 min)",
       "Call Out (After shift starts)",
       "Call Out (Prior to shift)",
       "Tardy (60+ min)",
       "Early Departure (16-59 min)",
       "Early Departure (60+ min)",
       "Late Return (16-59 min)",
       "Late Return (60+ min)" >>

InfractionType == { InfractionTypeSeq[i] : i \in 1..Len(InfractionTypeSeq) }

Min(a, b) == IF a < b THEN a ELSE b

\* ----------------------------------------------------------------- helpers
IsDigit(c) == c \in {"0", "1", "2", "3", "4", "5", "6", "7", "8", "9"}

IsSpace(c) == c = " "

digitsOnly(s) == SelectSeq(s, IsDigit)

RECURSIVE trimStart(_)
trimStart(s) ==
    IF s # <<>> /\ IsSpace(Head(s)) THEN trimStart(Tail(s)) ELSE s

RECURSIVE trimEnd(_)
trimEnd(s) ==
    IF s # <<>> /\ IsSpace(s[Len(s)]) THEN trimEnd(SubSeq(s, 1, Len(s) - 1)) ELSE s

trim(s) == trimEnd(trimStart(s))

\* floor division that is also right for negative hours
FloorDiv(a, b) == IF a >= 0 THEN a \div b ELSE 0 - ((b - 1 - a) \div b)

\* new Date().toISOString().slice(0, 10): the UTC calendar day
todayISO(nowH) == FloorDiv(nowH, 24)

\* new Date(dateISO) is UTC midnight of that day; cutoff is LOCAL midnight of
\* the local calendar day, moved back `days` days.  Both compared as instants.
isOlderThanDays(dateISO, days, nowH, tzH) ==
    IF dateISO = InvalidDate THEN FALSE
    ELSE LET localDay == FloorDiv(nowH + tzH, 24)
             cutoff   == (localDay - days) * 24 - tzH
         IN  dateISO * 24 < cutoff

\* No Call / No Show given the value of a call-out before the shift
pointsForType_swapped(type) ==
    CASE type = "Call Out (Prior to shift)"     -> 3
      [] type = "Call Out (After shift starts)" -> 8
      [] type = "No Call / No Show"             -> 3
      [] type = "Tardy (16-59 min)"             -> 1
      [] type = "Tardy (60+ min)"               -> 2
      [] type = "Early Departure (16-59 min)"   -> 1
      [] type = "Early Departure (60+ min)"     -> 2
      [] type = "Late Return (16-59 min)"       -> 1
      [] type = "Late Return (60+ min)"         -> 2

pointsForType(type) ==
    CASE type = "Call Out (Prior to shift)"     -> 3
      [] type = "Call Out (After shift starts)" -> 8
      [] type = "No Call / No Show"             -> 8
      [] type = "Tardy (16-59 min)"             -> 1
      [] type = "Tardy (60+ min)"               -> 2
      [] type = "Early Departure (16-59 min)"   -> 1
      [] type = "Early Departure (60+ min)"     -> 2
      [] type = "Late Return (16-59 min)"       -> 1
      [] type = "Late Return (60+ min)"         -> 2

\* thresholds open below: > where the code has >=
statusForPoints_strict(total) ==
    IF total # NaN /\ total > 12 THEN "Termination"
    ELSE IF total # NaN /\ total > 8 THEN "Final Written Warning"
    ELSE IF total # NaN /\ total > 6 THEN "First Written Warning"
    ELSE "OK"

\* every comparison with NaN is false, so NaN falls through to "OK"
statusForPoints(total) ==
    IF total # NaN /\ total >= 12 THEN "Termination"
    ELSE IF total # NaN /\ total >= 8 THEN "Final Written Warning"
    ELSE IF total # NaN /\ total >= 6 THEN "First Written Warning"
    ELSE "OK"

toneForStatus(status) ==
    IF status = "Termination" THEN "danger"
    ELSE IF status = "Final Written Warning" THEN "warn"
    ELSE IF status = "First Written Warning" THEN "neutral"
    ELSE "ok"

\* s + i.points in JavaScript numbers: NaN is absorbing
Plus(s, p) == IF s = NaN \/ p = NaN THEN NaN ELSE s + p

RECURSIVE reduceFrom(_, _, _)
reduceFrom(infractions, k, acc) ==
    IF k > Len(infractions) THEN acc
    ELSE reduceFrom(infractions, k + 1, Plus(acc, infractions[k].points))

\* a reduce without initial value takes the first element as the
\* accumulator, so its points are never added
sumPoints_noInitial(infractions) == reduceFrom(infractions, 2, 0)

sumPoints(infractions) == reduceFrom(infractions, 1, 0)

\* ------------------------------------------------------------- persistence
\* A decoded localStorage value.  kind is "missing" (no key or empty text),
\* "invalid" (JSON.parse throws), "other" (JSON that is no array) or "array".
Doc(kind, items) == [kind |-> kind, items |-> items]

RawInf(id, type, points, date, store, reason) ==
    [id |-> id, type |-> type, points |-> points, date |-> date,
     store |-> store, reason |-> reason]

RawEmp(id, employeeId, name, infractions) ==
    [id |-> id, employeeId |-> employeeId, name |-> name,
     infractions |-> infractions]

DefaultName == <<"E", "m", "p", "l", "o", "y", "e", "e">>

\* x?.f ?? d
OrElse(field, d) == IF field = <<>> THEN d ELSE field[1]

\* one element of e.infractions.map(...); n is the id newId() would return.
\* A stored points value is the number Number() makes of it (NaN when it
\* is not numeric); pointsForType of a string outside the nine categories
\* is undefined, and Number(undefined) is NaN.
decodeInfraction(x, n, nowH) ==
    LET type == OrElse(x.type, "Tardy (16-59 min)")
        date == OrElse(x.date, todayISO(nowH))
    IN  [id     |-> OrElse(x.id, n),
         type   |-> type,
         points |-> OrElse(x.points,
                           IF type \in InfractionType THEN pointsForType(type) ELSE NaN),
         date   |-> date,
         store  |-> OrElse(x.store, ""),
         reason |-> OrElse(x.reason, "")]

\* number of newId() calls made while decoding the first k entries
RECURSIVE missingIds(_, _)
missingIds(xs, k) ==
    IF k = 0 THEN 0
    ELSE missingIds(xs, k - 1) + (IF xs[k].id = <<>> THEN 1 ELSE 0)

NotExpired(nowH, tzH, inf) == ~isOlderThanDays(inf.date, AUTO_REMOVE_DAYS, nowH, tzH)

keepRecent(infractions, nowH, tzH) ==
    LET Keep(inf) == NotExpired(nowH, tzH, inf)
    IN  SelectSeq(infractions, Keep)

decodeInfractions(field, n, nowH, tzH) ==
    IF field = <<>> THEN <<>>
    ELSE LET xs == field[1]
             decoded == [ k \in 1..Len(xs) |->
                            decodeInfraction(xs[k], n + missingIds(xs, k - 1), nowH) ]
         IN  keepRecent(decoded, nowH, tzH)

newIdsInInfractions(field) ==
    IF field = <<>> THEN 0 ELSE missingIds(field[1], Len(field[1]))

\* newId() calls made for one stored employee: its infractions first, then
\* its own id (the order of evaluation in the object literal)
newIdsInEmployee(e) ==
    newIdsInInfractions(e.infractions) + (IF e.id = <<>> THEN 1 ELSE 0)

RECURSIVE newIdsIn(_, _)
newIdsIn(items, k) ==
    IF k = 0 THEN 0 ELSE newIdsIn(items, k - 1) + newIdsInEmployee(items[k])

decodeEmployee(e, n, nowH, tzH) ==
    [id          |-> OrElse(e.id, n + newIdsInInfractions(e.infractions)),
     employeeId  |-> digitsOnly(OrElse(e.employeeId, <<>>)),
     name        |-> OrElse(e.name, DefaultName),
     infractions |-> decodeInfractions(e.infractions, n, nowH, tzH)]

\* a JSON value that is no array taken as the only element of one
loadEmployees_wrapped(doc, n, nowH, tzH) ==
    IF doc.kind \in {"missing", "invalid"} THEN <<>>
    ELSE [ k \in 1..Len(doc.items) |->
             decodeEmployee(doc.items[k], n + newIdsIn(doc.items, k - 1), nowH, tzH) ]

loadEmployees(doc, n, nowH, tzH) ==
    IF doc.kind # "array" THEN <<>>
    ELSE [ k \in 1..Len(doc.items) |->
             decodeEmployee(doc.items[k], n + newIdsIn(doc.items, k - 1), nowH, tzH) ]

newIdsInLoad(doc) ==
    IF doc.kind # "array" THEN 0 ELSE newIdsIn(doc.items, Len(doc.items))

\* JSON.stringify of one infraction: NaN is written as null
encodeInfraction(inf) ==
    [id     |-> <<inf.id>>,
     type   |-> <<inf.type>>,
     points |-> IF inf.points = NaN THEN <<>> ELSE <<inf.points>>,
     date   |-> <<inf.date>>,
     store  |-> <<inf.store>>,
     reason |-> <<inf.reason>>]

encodeEmployee(e) ==
    [id          |-> <<e.id>>,
     employeeId  |-> <<e.employeeId>>,
     name        |-> <<e.name>>,
     infractions |-> << [ j \in 1..Len(e.infractions) |-> encodeInfraction(e.infractions[j]) ] >>]

saveEmployees(data) == Doc("array", [ i \in 1..Len(data) |-> encodeEmployee(data[i]) ])

\* without seen.add(eid): no external id is ever found in `seen`
\* a decoded localStorage[STORES_KEY]: kind as for Doc; an item is a JSON
\* value, a string (str) with its text or some other value
TagItem(str, text) == [str |-> str, text |-> text]

loadStores(doc) ==
    IF doc.kind # "array" THEN <<>>
    ELSE LET IsString(x) == x.str
             strings  == SelectSeq(doc.items, IsString)
             trimmed  == [ k \in 1..Len(strings) |-> trim(strings[k].text) ]
             NonEmpty(t) == t # <<>>
         IN  SelectSeq(trimmed, NonEmpty)

saveStores(data) == Doc("array", [ k \in 1..Len(data) |-> TagItem(TRUE, data[k]) ])

RECURSIVE normalizeFrom_unseen(_, _, _, _)
normalizeFrom_unseen(data, k, seen, out) ==
    IF k > Len(data) THEN out
    ELSE LET e   == data[k]
             eid == digitsOnly(e.employeeId)
         IN  IF eid = <<>> THEN normalizeFrom_unseen(data, k + 1, seen, out)
             ELSE IF eid \in seen THEN normalizeFrom_unseen(data, k + 1, seen, out)
             ELSE normalizeFrom_unseen(data, k + 1, seen,
                                       Append(out, [e EXCEPT !.employeeId = eid]))

RECURSIVE normalizeFrom(_, _, _, _)
normalizeFrom(data, k, seen, out) ==
    IF k > Len(data) THEN out
    ELSE LET e   == data[k]
             eid == digitsOnly(e.employeeId)
         IN  IF eid = <<>> THEN normalizeFrom(data, k + 1, seen, out)
             ELSE IF eid \in seen THEN normalizeFrom(data, k + 1, seen, out)
             ELSE normalizeFrom(data, k + 1, seen \cup {eid},
                                Append(out, [e EXCEPT !.employeeId = eid]))

normalizeEmployees(data) == normalizeFrom(data, 1, {}, <<>>)

\* the updater of the retention effect: prev => changed ? next : prev
sweepExpired(prev, nowH, tzH) ==
    [ k \in 1..Len(prev) |->
        [prev[k] EXCEPT !.infractions = keepRecent(prev[k].infractions, nowH, tzH)] ]

\* -------------------------------------------------------- store operations
\* Every operation is a function of the `employees` its closure sees and
\* returns the value handed to setEmployees (that same value when the
\* operation returns early).
HasEmployeeId(emps, eid) == \E i \in 1..Len(emps) : emps[i].employeeId = eid

\* without the check for an existing external id
addEmployee_unchecked(emps, name, employeeIdRaw, id) ==
    LET n   == trim(name)
        eid == trim(digitsOnly(employeeIdRaw))
    IN  IF n = <<>> \/ eid = <<>> THEN emps
        ELSE << [id |-> id, name |-> n, employeeId |-> eid, infractions |-> <<>>] >> \o emps

\* the new record put after the existing ones
addEmployee_appended(emps, name, employeeIdRaw, id) ==
    LET n   == trim(name)
        eid == trim(digitsOnly(employeeIdRaw))
    IN  IF n = <<>> \/ eid = <<>> THEN emps
        ELSE IF HasEmployeeId(emps, eid) THEN emps
        ELSE emps \o << [id |-> id, name |-> n, employeeId |-> eid, infractions |-> <<>>] >>

addEmployee(emps, name, employeeIdRaw, id) ==
    LET n   == trim(name)
        eid == trim(digitsOnly(employeeIdRaw))
    IN  IF n = <<>> \/ eid = <<>> THEN emps
        ELSE IF HasEmployeeId(emps, eid) THEN emps
        ELSE << [id |-> id, name |-> n, employeeId |-> eid, infractions |-> <<>>] >> \o emps

\* every row renamed
updateEmployeeName_all(emps, rowId, name) ==
    LET trimmed == trim(name)
    IN  IF trimmed = <<>> THEN emps
        ELSE [ i \in 1..Len(emps) |-> [emps[i] EXCEPT !.name = trimmed] ]

updateEmployeeName(emps, rowId, name) ==
    LET trimmed == trim(name)
    IN  IF trimmed = <<>> THEN emps
        ELSE [ i \in 1..Len(emps) |->
                 IF emps[i].id = rowId THEN [emps[i] EXCEPT !.name = trimmed] ELSE emps[i] ]

\* without the check for another holder of the external id
updateEmployeeId_unchecked(emps, rowId, employeeIdRaw) ==
    LET eid == digitsOnly(employeeIdRaw)
    IN  [ i \in 1..Len(emps) |->
            IF emps[i].id = rowId THEN [emps[i] EXCEPT !.employeeId = eid] ELSE emps[i] ]

\* the raw text stored as it was typed
updateEmployeeId_raw(emps, rowId, employeeIdRaw) ==
    LET eid == digitsOnly(employeeIdRaw)
        existsOther == \E i \in 1..Len(emps) :
                          emps[i].employeeId = eid /\ emps[i].id # rowId
    IN  IF eid # <<>> /\ existsOther THEN emps
        ELSE [ i \in 1..Len(emps) |->
                 IF emps[i].id = rowId THEN [emps[i] EXCEPT !.employeeId = employeeIdRaw]
                 ELSE emps[i] ]

updateEmployeeId(emps, rowId, employeeIdRaw) ==
    LET eid == digitsOnly(employeeIdRaw)
        existsOther == \E i \in 1..Len(emps) :
                          emps[i].employeeId = eid /\ emps[i].id # rowId
    IN  IF eid = <<>>
        THEN [ i \in 1..Len(emps) |->
                 IF emps[i].id = rowId THEN [emps[i] EXCEPT !.employeeId = <<>>] ELSE emps[i] ]
        ELSE IF existsOther THEN emps
        ELSE [ i \in 1..Len(emps) |->
                 IF emps[i].id = rowId THEN [emps[i] EXCEPT !.employeeId = eid] ELSE emps[i] ]

deleteEmployee(emps, rowId) ==
    LET Other(e) == e.id # rowId
    IN  SelectSeq(emps, Other)

\* number of employees among the first k whose row id is rowId
RECURSIVE matchesBefore(_, _, _)
matchesBefore(emps, rowId, k) ==
    IF k = 0 THEN 0
    ELSE matchesBefore(emps, rowId, k - 1) + (IF emps[k].id = rowId THEN 1 ELSE 0)

\* the new infraction put after the existing ones
addInfraction_appended(emps, empRowId, inf, n) ==
    [ i \in 1..Len(emps) |->
        IF emps[i].id = empRowId
        THEN [emps[i] EXCEPT !.infractions =
                Append(emps[i].infractions,
                       [id     |-> n + matchesBefore(emps, empRowId, i - 1),
                        type   |-> inf.type,
                        points |-> inf.points,
                        date   |-> inf.date,
                        store  |-> inf.store,
                        reason |-> inf.reason])]
        ELSE emps[i] ]

\* inf is Omit<Infraction, "id">; newId() runs once for every matching row,
\* n is the first id it returns
addInfraction(emps, empRowId, inf, n) ==
    [ i \in 1..Len(emps) |->
        IF emps[i].id = empRowId
        THEN [emps[i] EXCEPT !.infractions =
                << [id     |-> n + matchesBefore(emps, empRowId, i - 1),
                    type   |-> inf.type,
                    points |-> inf.points,
                    date   |-> inf.date,
                    store  |-> inf.store,
                    reason |-> inf.reason] >> \o emps[i].infractions]
        ELSE emps[i] ]

deleteInfraction(emps, empRowId, infractionId) ==
    LET Other(inf) == inf.id # infractionId
    IN  [ i \in 1..Len(emps) |->
            IF emps[i].id = empRowId
            THEN [emps[i] EXCEPT !.infractions = SelectSeq(emps[i].infractions, Other)]
            ELSE emps[i] ]

addStore(tags, raw) ==
    LET trimmed == trim(raw)
    IN  IF trimmed = <<>> THEN tags
        ELSE IF \E k \in 1..Len(tags) : tags[k] = trimmed THEN tags
        ELSE <<trimmed>> \o tags

deleteStore(tags, storeValue) ==
    LET trimmed == trim(storeValue)
        Other(x) == x # trimmed
    IN  IF trimmed = <<>> THEN tags ELSE SelectSeq(tags, Other)

\* ------------------------------------------------------------ EmployeePage
\* the memos of App.tsx:862-865 and the payload of the Add Infraction button
\* a memo that is never recomputed keeps the points of the initial type
EmployeePagePoints_stale(type) == pointsForType("Tardy (16-59 min)")

EmployeePagePoints(type) == pointsForType(type)

EmployeePageTotal(employee) == sumPoints(employee.infractions)

EmployeePageStatus(employee) == statusForPoints(EmployeePageTotal(employee))

EmployeePageTone(employee) == toneForStatus(EmployeePageStatus(employee))

AddInfractionPayload(type, date, store, reason) ==
    [type |-> type, date |-> date, store |-> store,
     points |-> EmployeePagePoints(type), reason |-> reason]

\* ------------------------------------------------------------------ inputs
Strs(alphabet, maxLen) == UNION { [1..k -> alphabet] : k \in 0..maxLen }

NameInputs == Strs({" ", "a"}, MaxStrLen)

\* what the ID fields hand over: texts of digits and other characters, one
\* of them mixed
IdInputs == Strs({"1", "x"}, MaxStrLen) \cup { <<"1", "x">> }

TypeInputs == { InfractionTypeSeq[i] : i \in 1..Min(MaxTypes, Len(InfractionTypeSeq)) }

StartNow == 1000 * 24 + 12

FirstNewId == MaxStoredId + 1

\* the day the session starts, and a day that has left the retention window
DateInputs ==
    { todayISO(StartNow),
      todayISO(StartNow) - AUTO_REMOVE_DAYS - 1 }

StoreInputs == {"101"}

ReasonInputs == {""}

TzOffsets == {0}

RestartDelays == {0}

\* contents the storage slot may hold when the application starts
StoredDocs ==
    { Doc("missing", <<>>),
      Doc("invalid", <<>>),
      Doc("other", <<>>),
      \* two rows with one row id, the first holding one entry twice
      Doc("array",
          << RawEmp(<<1>>, << <<"1">> >>, << <<"a">> >>,
                    << << RawInf(<<3>>, <<"Tardy (16-59 min)">>, <<1>>,
                                 <<todayISO(StartNow)>>, <<"101">>, <<"">>),
                          RawInf(<<3>>, <<"Tardy (16-59 min)">>, <<1>>,
                                 <<todayISO(StartNow)>>, <<"101">>, <<"">>) >> >>),
             RawEmp(<<1>>, << <<"1", "1">> >>, << <<"a", "a">> >>, << <<>> >>) >>),
      \* a stored name of one space; stored points that are not a number,
      \* off the table, missing; a record without row id that repeats an
      \* external id
      Doc("array",
          << RawEmp(<<2>>, << <<"x", "1">> >>, << <<" ">> >>,
                    << << RawInf(<<3>>, <<"Tardy (60+ min)">>, <<NaN>>,
                                 <<todayISO(StartNow)>>, <<"101">>, <<"">>),
                          RawInf(<<>>, <<"Tardy (16-59 min)">>, <<5>>,
                                 <<todayISO(StartNow) - AUTO_REMOVE_DAYS - 1>>, <<>>, <<>>),
                          RawInf(<<4>>, <<>>, <<>>, <<>>, <<>>, <<>>) >> >>),
             RawEmp(<<>>, << <<"1">> >>, <<>>, <<>>) >>),
      \* two rows with distinct row ids, the first with a No Call / No Show
      \* of an earlier session, and one whose external id has no digit
      Doc("array",
          << RawEmp(<<1>>, << <<"1">> >>, << <<"a">> >>,
                    << << RawInf(<<4>>, <<"No Call / No Show">>, <<8>>,
                                 <<todayISO(StartNow)>>, <<"101">>, <<"">>) >> >>),
             RawEmp(<<2>>, << <<"x">> >>, << <<"a">> >>, <<>>),
             RawEmp(<<3>>, << <<"1", "x", "1">> >>, << <<"a", "a">> >>, << <<>> >>) >>) }

\* ----------------------------------------------------------------- actions
Op(op, arg, out, n) == [op |-> op, arg |-> arg, out |-> out, n |-> n]

Probe(fn, type, total, points, status) ==
    [fn |-> fn, type |-> type, total |-> total, points |-> points, status |-> status]

NoProbe == Probe("", "", 0, 0, "")

\* the confirmation dialog: closed, or open for one deletion, with the
\* collection of the render whose deleteEmployee or deleteInfraction the
\* onConfirm closure calls
Confirm(open, kind, rowId, infractionId, seen) ==
    [open |-> open, kind |-> kind, rowId |-> rowId,
     infractionId |-> infractionId, seen |-> seen]

NoConfirm == Confirm(FALSE, "", 0, 0, <<>>)

\* the updater as seen from the renderer and in the host
Updater(bridge, dev, host, status) ==
    [bridge   |-> bridge,    \* window.attendanceUpdater is there
     dev      |-> dev,       \* isDev() of the host
     host     |-> host,      \* the file of the main process
     status   |-> status,    \* SettingsPage state status.state
     awaiting |-> "none",    \* the invoke the renderer awaits
     request  |-> "none",    \* the invoke the host has not yet taken up
     checking |-> FALSE,     \* a checkForUpdates of the host is running
     manual   |-> "none",    \* the update:check handler: started, or its outcome
     download |-> "none",    \* none, running, done
     channel  |-> <<>>,      \* messages on their way to the renderer
     installs |-> 0]         \* calls of autoUpdater.quitAndInstall

NoUpdater == Updater(FALSE, FALSE, "main.cjs", "idle")

\* useState(() => normalizeEmployees(loadEmployees())), then the effects of
\* the first render: saveEmployees (App.tsx:427) and the retention sweep
\* (App.tsx:430-440), whose result is saved again when it differs.
Mounted(doc, n, nowH, tzH) ==
    sweepExpired(normalizeEmployees(loadEmployees(doc, n, nowH, tzH)), nowH, tzH)

Init ==
    \E doc \in StoredDocs, tzH \in TzOffsets :
        /\ now = StartNow
        /\ tz = tzH
        /\ employees = Mounted(doc, FirstNewId, StartNow, tzH)
        /\ persisted = saveEmployees(Mounted(doc, FirstNewId, StartNow, tzH))
        /\ nextId = FirstNewId + newIdsInLoad(doc)
        /\ last = Op("mount", 0, "", 0)
        /\ probe = NoProbe
        /\ confirm = NoConfirm
        /\ updater = NoUpdater
        /\ stores = <<>>
        /\ storesSlot = saveStores(<<>>)

\* the application is closed and started again `delay` hours later
Restart(delay) ==
    /\ nextId + newIdsInLoad(persisted) <= FirstNewId + MaxNewIds
    /\ now' = now + delay
    /\ employees' = Mounted(persisted, nextId, now + delay, tz)
    /\ persisted' = saveEmployees(employees')
    /\ nextId' = nextId + newIdsInLoad(persisted)
    /\ last' = Op("mount", 0, "", 0)
    /\ UNCHANGED <<tz, probe, stores, storesSlot, confirm, updater>>

RowIds == { employees[i].id : i \in 1..Len(employees) } \cup {0}

InfractionIds ==
    UNION { { employees[i].infractions[j].id : j \in 1..Len(employees[i].infractions) } :
            i \in 1..Len(employees) } \cup {0}

FirstRow(rowId) ==
    IF \E i \in 1..Len(employees) : employees[i].id = rowId
    THEN CHOOSE i \in 1..Len(employees) :
            /\ employees[i].id = rowId
            /\ \A j \in 1..(i - 1) : employees[j].id # rowId
    ELSE 0

\* total on the page of the row (0 when there is no such row)
ShownTotal(rowId) ==
    IF FirstRow(rowId) = 0 THEN 0 ELSE EmployeePageTotal(employees[FirstRow(rowId)])

AddEmployee(name, employeeIdRaw) ==
    LET next == addEmployee(employees, name, employeeIdRaw, nextId)
        out  == IF trim(name) = <<>> \/ trim(digitsOnly(employeeIdRaw)) = <<>> THEN "invalid"
                ELSE IF HasEmployeeId(employees, trim(digitsOnly(employeeIdRaw))) THEN "duplicate"
                ELSE "added"
    IN  /\ Len(next) <= MaxEmployees
        /\ out = "added" => nextId < FirstNewId + MaxNewIds
        /\ employees' = next
        /\ persisted' = IF out = "added" THEN saveEmployees(next) ELSE persisted
        /\ nextId' = IF out = "added" THEN nextId + 1 ELSE nextId
        /\ last' = Op("addEmployee", 0, out, 0)
        /\ UNCHANGED <<now, tz, probe, stores, storesSlot, confirm, updater>>

UpdateEmployeeName(rowId, name) ==
    LET next == updateEmployeeName(employees, rowId, name)
        out  == IF trim(name) = <<>> THEN "ignored" ELSE "renamed"
    IN  /\ employees' = next
        /\ persisted' = IF out = "renamed" THEN saveEmployees(next) ELSE persisted
        /\ last' = Op("updateEmployeeName", rowId, out, 0)
        /\ UNCHANGED <<nextId, now, tz, probe, stores, storesSlot, confirm, updater>>

UpdateEmployeeId(rowId, employeeIdRaw) ==
    LET next == updateEmployeeId(employees, rowId, employeeIdRaw)
        eid  == digitsOnly(employeeIdRaw)
        out  == IF eid = <<>> THEN "cleared"
                ELSE IF \E i \in 1..Len(employees) :
                           employees[i].employeeId = eid /\ employees[i].id # rowId
                     THEN "collision"
                ELSE "set"
    IN  /\ employees' = next
        /\ persisted' = IF out = "collision" THEN persisted ELSE saveEmployees(next)
        /\ last' = Op("updateEmployeeId", rowId, out, 0)
        /\ UNCHANGED <<nextId, now, tz, probe, stores, storesSlot, confirm, updater>>

\* the collection changed without the save effect running
DeleteEmployee_unsaved(rowId) ==
    LET next == deleteEmployee(employees, rowId)
    IN  /\ employees' = next
        /\ last' = Op("deleteEmployee", rowId, "", Len(employees))
        /\ UNCHANGED <<persisted, nextId, now, tz, probe, stores, storesSlot, confirm, updater>>

DeleteEmployee(rowId) ==
    LET next == deleteEmployee(employees, rowId)
    IN  /\ employees' = next
        /\ persisted' = saveEmployees(next)
        /\ last' = Op("deleteEmployee", rowId, "", Len(employees))
        /\ UNCHANGED <<nextId, now, tz, probe, stores, storesSlot, confirm, updater>>

AddInfraction(empRowId, type, date, store, reason) ==
    LET made == matchesBefore(employees, empRowId, Len(employees))
        next == addInfraction(employees, empRowId,
                              AddInfractionPayload(type, date, store, reason), nextId)
    IN  /\ nextId + made <= FirstNewId + MaxNewIds
        /\ \A i \in 1..Len(next) : Len(next[i].infractions) <= MaxInfractions
        /\ employees' = next
        /\ persisted' = saveEmployees(next)
        /\ nextId' = nextId + made
        /\ last' = Op("addInfraction", empRowId, "", 0)
        /\ UNCHANGED <<now, tz, probe, stores, storesSlot, confirm, updater>>

DeleteInfraction(empRowId, infractionId) ==
    LET next == deleteInfraction(employees, empRowId, infractionId)
    IN  /\ employees' = next
        /\ persisted' = saveEmployees(next)
        /\ last' = Op("deleteInfraction", empRowId, "", ShownTotal(empRowId))
        /\ UNCHANGED <<nextId, now, tz, probe, stores, storesSlot, confirm, updater>>

\* the operations on employee records
NextRoster ==
    \/ \E name \in NameInputs, raw \in IdInputs : AddEmployee(name, raw)
    \/ \E rowId \in RowIds, name \in NameInputs : UpdateEmployeeName(rowId, name)
    \/ \E rowId \in RowIds, raw \in IdInputs : UpdateEmployeeId(rowId, raw)
    \/ \E rowId \in RowIds : DeleteEmployee(rowId)
    \/ \E delay \in RestartDelays : Restart(delay)

\* the operations on the infractions of the employees that are there
NextLedger ==
    \/ \E rowId \in RowIds, type \in TypeInputs, date \in DateInputs,
          store \in StoreInputs, reason \in ReasonInputs :
          AddInfraction(rowId, type, date, store, reason)
    \/ \E rowId \in RowIds, infractionId \in InfractionIds :
          DeleteInfraction(rowId, infractionId)
    \/ \E delay \in RestartDelays : Restart(delay)

Spec == Init /\ [][NextRoster]_vars

SpecLedger == Init /\ [][NextLedger]_vars

\* ------------------------------------------------- the policy functions
InitPolicy ==
    /\ now = StartNow
    /\ tz = 0
    /\ employees = <<>>
    /\ persisted = Doc("missing", <<>>)
    /\ nextId = FirstNewId
    /\ last = Op("mount", 0, "", 0)
    /\ probe = NoProbe
    /\ confirm = NoConfirm
    /\ updater = NoUpdater
    /\ stores = <<>>
    /\ storesSlot = saveStores(<<>>)

CallStatusForPoints(total) ==
    /\ probe' = Probe("statusForPoints", "", total, 0, statusForPoints(total))
    /\ UNCHANGED <<employees, persisted, nextId, now, tz, last, stores, storesSlot, confirm, updater>>

CallPointsForType(type) ==
    /\ probe' = Probe("pointsForType", type, 0, pointsForType(type), "")
    /\ UNCHANGED <<employees, persisted, nextId, now, tz, last, stores, storesSlot, confirm, updater>>

NextPolicy ==
    \/ \E total \in (0 - MaxTotal)..MaxTotal : CallStatusForPoints(total)
    \/ \E type \in InfractionType : CallPointsForType(type)

SpecPolicy == InitPolicy /\ [][NextPolicy]_vars

\* ------------------------------------------------ retention over the day
\* offsets of the local clock: west of UTC, UTC, east of UTC
RetentionTzOffsets == {0 - 5, 0, 9}

\* dates the date input of the infraction form is set to: the day the
\* session starts, the day AUTO_REMOVE_DAYS before it, and the day before that
RetentionDates ==
    { todayISO(StartNow),
      todayISO(StartNow) - AUTO_REMOVE_DAYS,
      todayISO(StartNow) - AUTO_REMOVE_DAYS - 1 }

RetentionDoc ==
    Doc("array", << RawEmp(<<1>>, << <<"1">> >>, << <<"a">> >>, << <<>> >>) >>)

InitRetention ==
    \E tzH \in RetentionTzOffsets :
        /\ now = StartNow
        /\ tz = tzH
        /\ employees = Mounted(RetentionDoc, FirstNewId, StartNow, tzH)
        /\ persisted = saveEmployees(Mounted(RetentionDoc, FirstNewId, StartNow, tzH))
        /\ nextId = FirstNewId + newIdsInLoad(RetentionDoc)
        /\ last = Op("mount", 0, "", 0)
        /\ probe = NoProbe
        /\ confirm = NoConfirm
        /\ updater = NoUpdater
        /\ stores = <<>>
        /\ storesSlot = saveStores(<<>>)

\* twelve hours pass while the application is open: no timer is set anywhere,
\* the retention effect has no dependency and does not run again
Tick ==
    /\ now < StartNow + MaxTicks * 12
    /\ now' = now + 12
    /\ last' = Op("tick", 0, "", 0)
    /\ UNCHANGED <<employees, persisted, nextId, tz, probe, stores, storesSlot, confirm, updater>>

RetentionAdd ==
    \E rowId \in RowIds, date \in RetentionDates,
       store \in StoreInputs, reason \in ReasonInputs :
       AddInfraction(rowId, "Tardy (16-59 min)", date, store, reason)

RetentionDelete ==
    \E rowId \in RowIds, infractionId \in InfractionIds :
       DeleteInfraction(rowId, infractionId)

NextRetention ==
    \/ RetentionAdd
    \/ RetentionDelete
    \/ Tick
    \/ \E delay \in RestartDelays : Restart(delay)

SpecRetention == InitRetention /\ [][NextRetention]_vars

\* the application stays open: the operations of the user and the clock,
\* which never stops
NextRunning ==
    \/ RetentionAdd
    \/ RetentionDelete
    \/ Tick

SpecRunning == InitRetention /\ [][NextRunning]_vars /\ WF_vars(Tick)

\* ------------------------------------------------------ the startup load
\* stored employee records: with and without row id, with an external id that
\* is missing, digits, digits among other characters, or free of digits.  A
\* JSON element that is no object (null, a number, a string) reads as a
\* record all of whose fields are missing.
LoadRecordInputs ==
    { RawEmp(id, eid, <<>>, <<>>) :
        id \in {<<>>, <<1>>, <<2>>},
        eid \in {<<>>, << <<"1">> >>, << <<"x", "1">> >>, << <<"x">> >>, << <<"2">> >>} }

\* stored infractions: no field at all; all fields right; a category outside
\* the nine and no points; points and date that are no number and no date; a
\* date that has left the retention window and no id
LoadInfractionInputs ==
    { RawInf(<<>>, <<>>, <<>>, <<>>, <<>>, <<>>),
      RawInf(<<3>>, <<"Tardy (60+ min)">>, <<2>>, <<todayISO(StartNow)>>, <<"101">>, <<"">>),
      RawInf(<<4>>, <<"Bogus">>, <<>>, <<todayISO(StartNow)>>, <<"101">>, <<"">>),
      RawInf(<<3>>, <<"No Call / No Show">>, <<NaN>>, <<InvalidDate>>, <<>>, <<>>),
      RawInf(<<>>, <<"Tardy (16-59 min)">>, <<5>>,
             <<todayISO(StartNow) - AUTO_REMOVE_DAYS - 1>>, <<"101">>, <<>>) }

\* what localStorage[STORAGE_KEY] may hold when loadEmployees reads it
SlotContents ==
    StoredDocs
    \cup { Doc("other", << RawEmp(<<>>, <<>>, <<>>, <<>>) >>) }
    \cup { Doc("array", items) : items \in Strs(LoadRecordInputs, MaxEmployees) }
    \cup { Doc("array", << RawEmp(<<1>>, << <<"1">> >>, << <<"a">> >>, <<infs>>) >>) :
             infs \in Strs(LoadInfractionInputs, MaxInfractions) }

InitStored ==
    /\ persisted \in SlotContents
    /\ employees = <<>>
    /\ nextId = FirstNewId
    /\ now = StartNow
    /\ tz = 0
    /\ last = Op("stored", 0, "", 0)
    /\ probe = NoProbe
    /\ confirm = NoConfirm
    /\ updater = NoUpdater
    /\ stores = <<>>
    /\ storesSlot = saveStores(<<>>)

\* the two calls of the initialiser normalizeEmployees(loadEmployees())
CallLoadEmployees ==
    /\ last.op = "stored"
    /\ employees' = loadEmployees(persisted, nextId, now, tz)
    /\ nextId' = nextId + newIdsInLoad(persisted)
    /\ last' = Op("loadEmployees", 0, "", 0)
    /\ UNCHANGED <<persisted, now, tz, probe, stores, storesSlot, confirm, updater>>

CallNormalizeEmployees ==
    /\ last.op = "loadEmployees"
    /\ employees' = normalizeEmployees(employees)
    /\ last' = Op("normalizeEmployees", 0, "", 0)
    /\ UNCHANGED <<persisted, nextId, now, tz, probe, stores, storesSlot, confirm, updater>>

NextLoad ==
    \/ CallLoadEmployees
    \/ CallNormalizeEmployees

SpecLoad == InitStored /\ [][NextLoad]_vars

\* ---------------------------------------------------------- the store tags
TagInputs == Strs({" ", "a", "b"}, MaxStrLen + 1)

\* contents the store-tag slot may hold when the application starts
StoredTagDocs ==
    { Doc("missing", <<>>),
      Doc("invalid", <<>>),
      Doc("other", <<>>),
      Doc("array", << TagItem(TRUE, <<"a">>), TagItem(TRUE, <<"b">>) >>),
      \* one tag twice
      Doc("array", << TagItem(TRUE, <<"a">>), TagItem(TRUE, <<"a">>) >>),
      \* two texts that are one tag once trimmed
      Doc("array", << TagItem(TRUE, <<" ", "a">>), TagItem(TRUE, <<"a">>) >>),
      \* a number, a blank text, a tag
      Doc("array", << TagItem(FALSE, <<>>), TagItem(TRUE, <<" ">>), TagItem(TRUE, <<"b">>) >>) }

\* useState(() => loadStores()) and the save effect of the first render
InitStores ==
    \E doc \in StoredTagDocs :
        /\ stores = loadStores(doc)
        /\ storesSlot = saveStores(loadStores(doc))
        /\ employees = <<>>
        /\ persisted = saveEmployees(<<>>)
        /\ nextId = FirstNewId
        /\ now = StartNow
        /\ tz = 0
        /\ last = Op("mount", 0, "", 0)
        /\ probe = NoProbe
        /\ confirm = NoConfirm
        /\ updater = NoUpdater

AddStore(raw) ==
    LET next == addStore(stores, raw)
    IN  /\ Len(next) <= MaxStores
        /\ stores' = next
        /\ storesSlot' = IF next = stores THEN storesSlot ELSE saveStores(next)
        /\ last' = Op("addStore", 0, IF next = stores THEN "ignored" ELSE "added", 0)
        /\ UNCHANGED <<employees, persisted, nextId, now, tz, probe, confirm, updater>>

DeleteStore(storeValue) ==
    LET next == deleteStore(stores, storeValue)
    IN  /\ stores' = next
        /\ storesSlot' = IF trim(storeValue) = <<>> THEN storesSlot ELSE saveStores(next)
        /\ last' = Op("deleteStore", 0, "", Len(stores))
        /\ UNCHANGED <<employees, persisted, nextId, now, tz, probe, confirm, updater>>

RestartStores ==
    /\ stores' = loadStores(storesSlot)
    /\ storesSlot' = saveStores(loadStores(storesSlot))
    /\ last' = Op("mount", 0, "", 0)
    /\ UNCHANGED <<employees, persisted, nextId, now, tz, probe, confirm, updater>>

\* the tag list shows the tags that are there: one of them is deleted
NextStores ==
    \/ \E raw \in TagInputs : AddStore(raw)
    \/ \E k \in 1..Len(stores) : DeleteStore(stores[k])
    \/ RestartStores

SpecStores == InitStores /\ [][NextStores]_vars

\* ------------------------------------------------- the startup, step by step
\* the flag of the retention effect: some employee has fewer infractions
\* after the filter
sweepChanged_always(prev, nowH, tzH) == TRUE

sweepChanged(prev, nowH, tzH) ==
    \E k \in 1..Len(prev) :
        Len(keepRecent(prev[k].infractions, nowH, tzH)) # Len(prev[k].infractions)

MountInfraction(id, date) ==
    RawInf(<<id>>, <<"Tardy (16-59 min)">>, <<1>>, <<date>>, <<"101">>, <<"">>)

\* infraction lists of a stored employee with ids from first on: dated the
\* day of the start, AUTO_REMOVE_DAYS days before it, or one day more
MountLists(first) ==
    LET today == todayISO(StartNow)
        edge  == todayISO(StartNow) - AUTO_REMOVE_DAYS
    IN  { <<>>,
          << MountInfraction(first, today) >>,
          << MountInfraction(first, edge) >>,
          << MountInfraction(first, edge - 1) >>,
          << MountInfraction(first, edge), MountInfraction(first + 1, today) >>,
          << MountInfraction(first, today), MountInfraction(first + 1, edge) >>,
          << MountInfraction(first, today), MountInfraction(first + 1, today) >> }

\* what an earlier session has left in the slot: two employees
MountDocs ==
    { Doc("array", << RawEmp(<<1>>, << <<"1">> >>, << <<"a">> >>, << xs >>),
                      RawEmp(<<2>>, << <<"1", "1">> >>, << <<"a">> >>, << ys >>) >>) :
      xs \in MountLists(1), ys \in MountLists(3) }

InitMount ==
    \E doc \in MountDocs, tzH \in RetentionTzOffsets :
        /\ persisted = doc
        /\ employees = <<>>
        /\ nextId = FirstNewId
        /\ now = StartNow
        /\ tz = tzH
        /\ last = Op("stored", 0, "", 0)
        /\ probe = NoProbe
        /\ confirm = NoConfirm
        /\ updater = NoUpdater
        /\ stores = <<>>
        /\ storesSlot = saveStores(<<>>)

\* the initialiser of the employees state, run by the first render
MountRender ==
    /\ last.op = "stored"
    /\ employees' = normalizeEmployees(loadEmployees(persisted, nextId, now, tz))
    /\ nextId' = nextId + newIdsInLoad(persisted)
    /\ last' = Op("render", 0, "", 0)
    /\ UNCHANGED <<persisted, now, tz, probe, stores, storesSlot, confirm, updater>>

\* the clock goes on between the first render and its effects
MountClock ==
    /\ last.op \in {"render", "saved"}
    /\ now < StartNow + MaxTicks * 12
    /\ now' = now + 12
    /\ UNCHANGED <<employees, persisted, nextId, tz, last, probe, stores, storesSlot, confirm, updater>>

\* the save effect of the first render
MountSave ==
    /\ last.op = "render"
    /\ persisted' = saveEmployees(employees)
    /\ last' = Op("saved", 0, "", 1)
    /\ UNCHANGED <<employees, nextId, now, tz, probe, stores, storesSlot, confirm, updater>>

\* the retention effect of the first render: the updater returns prev itself
\* when nothing was filtered out, and then no render and no save follow;
\* otherwise the new collection is rendered and the save effect writes it.
\* last.n is the number of writes the effect has caused.
MountSweep ==
    LET changed == sweepChanged(employees, now, tz)
        next    == IF changed THEN sweepExpired(employees, now, tz) ELSE employees
    IN  /\ last.op = "saved"
        /\ employees' = next
        /\ persisted' = IF changed THEN saveEmployees(next) ELSE persisted
        /\ last' = Op("sweep", 0, IF changed THEN "replaced" ELSE "same",
                                  IF changed THEN 1 ELSE 0)
        /\ UNCHANGED <<nextId, now, tz, probe, stores, storesSlot, confirm, updater>>

NextMount ==
    \/ MountRender
    \/ MountClock
    \/ MountSave
    \/ MountSweep

SpecMount == InitMount /\ [][NextMount]_vars

\* ------------------------------------------------- the confirmation dialog
\* The Delete button of a row of the list: the dialog opens, its onConfirm
\* holding the deleteEmployee of this render.
AskDeleteEmployee(rowId) ==
    /\ ~confirm.open
    /\ \E i \in 1..Len(employees) : employees[i].id = rowId
    /\ confirm' = Confirm(TRUE, "employee", rowId, 0, employees)
    /\ last' = Op("askDeleteEmployee", rowId, "", 0)
    /\ UNCHANGED <<employees, persisted, nextId, now, tz, probe, stores, storesSlot, updater>>

\* The Delete button of an infraction on the page of the employee rowId
AskDeleteInfraction(rowId, infractionId) ==
    /\ ~confirm.open
    /\ \E i \in 1..Len(employees) :
          /\ employees[i].id = rowId
          /\ \E j \in 1..Len(employees[i].infractions) :
                employees[i].infractions[j].id = infractionId
    /\ confirm' = Confirm(TRUE, "infraction", rowId, infractionId, employees)
    /\ last' = Op("askDeleteInfraction", rowId, "", 0)
    /\ UNCHANGED <<employees, persisted, nextId, now, tz, probe, stores, storesSlot, updater>>

\* Cancel, or a press on the backdrop
CancelConfirm ==
    /\ confirm.open
    /\ confirm' = NoConfirm
    /\ last' = Op("cancel", confirm.rowId, confirm.kind, 0)
    /\ UNCHANGED <<employees, persisted, nextId, now, tz, probe, stores, storesSlot, updater>>

\* what onConfirm hands to setEmployees: the deletion applied to the
\* collection its closure sees
confirmedDelete(dialog, emps) ==
    IF dialog.kind = "employee"
    THEN deleteEmployee(dialog.seen, dialog.rowId)
    ELSE deleteInfraction(dialog.seen, dialog.rowId, dialog.infractionId)

\* the confirm button: the dialog closes, the deletion runs, the save effect
\* writes the result
ConfirmDelete ==
    LET next == confirmedDelete(confirm, employees)
    IN  /\ confirm.open
        /\ employees' = next
        /\ persisted' = saveEmployees(next)
        /\ confirm' = NoConfirm
        /\ last' = Op("confirmDelete", confirm.rowId, confirm.kind, 0)
        /\ UNCHANGED <<nextId, now, tz, probe, stores, storesSlot, updater>>

\* The dialog covers the window but takes neither the focus nor the
\* keyboard: behind it the form of the list (dialog of an employee) and the
\* fields of the employee page (dialog of an infraction) still take input.
TypeNewEmployee(name, raw) ==
    /\ confirm.kind # "infraction"
    /\ AddEmployee(name, raw)

TypeName(rowId, name) ==
    /\ confirm.kind # "employee"
    /\ confirm.open => rowId = confirm.rowId
    /\ UpdateEmployeeName(rowId, name)

NextConfirm ==
    \/ \E rowId \in RowIds : AskDeleteEmployee(rowId)
    \/ \E rowId \in RowIds, infractionId \in InfractionIds :
          AskDeleteInfraction(rowId, infractionId)
    \/ CancelConfirm
    \/ ConfirmDelete
    \/ \E name \in NameInputs, raw \in IdInputs : TypeNewEmployee(name, raw)
    \/ \E rowId \in RowIds, name \in NameInputs : TypeName(rowId, name)

SpecConfirm == Init /\ [][NextConfirm]_vars

\* ------------------------------------------------------------- the updater
\* The renderer (SettingsPage) and the main process talk through the bridge
\* of preload.cjs: invoke and its reply, and update:status notifications.
\* Two files of the repository hold a main process: electron/main.cjs and
\* the unnamed one that has neither isDev nor the guards built on it.
HostFiles == {"main.cjs", "part_001"}

\* what autoUpdater.checkForUpdates() comes to
CheckOutcomes == {"newer", "same", "throws"}

\* what the user does with the message box, or the message box failing
DialogActs == {"install", "later", "dismiss", "throws"}

Msg(kind, state, ok, newer) == [kind |-> kind, state |-> state, ok |-> ok, newer |-> newer]

StatusMsg(state) == Msg("status", state, TRUE, FALSE)

\* newer: the reply has a currentVersion and a latestVersion that differ
CheckReply(ok, newer) == Msg("checkReply", "", ok, newer)

InstallReply(ok) == Msg("installReply", "", ok, FALSE)

Rejected(kind) == Msg(kind, "", FALSE, FALSE)

\* ipcMain.handle("update:check") of electron/main.cjs: the value returned
updateCheckMain(dev, outcome) ==
    IF dev THEN CheckReply(FALSE, FALSE)
    ELSE IF outcome = "throws" THEN CheckReply(FALSE, FALSE)
    ELSE CheckReply(TRUE, outcome = "newer")

\* the same handler in the older main process: no development mode, and a
\* reply without versions
updateCheckOlder(outcome) ==
    IF outcome = "throws" THEN CheckReply(FALSE, FALSE)
    ELSE CheckReply(TRUE, FALSE)

updateCheck(host, dev, outcome) ==
    IF host = "main.cjs" THEN updateCheckMain(dev, outcome) ELSE updateCheckOlder(outcome)

\* res.response of dialog.showMessageBox in electron/main.cjs: with
\* cancelId 1 a dismissed box answers 1
dialogResponseMain(act) == IF act = "install" THEN 0 ELSE 1

\* in the older main process: without cancelId, and without a button named
\* Cancel or No, a dismissed box answers 0
dialogResponseOlder(act) == IF act = "later" THEN 1 ELSE 0

\* ipcMain.handle("update:installNow") of electron/main.cjs: whether
\* quitAndInstall is called, and what the renderer gets
updateInstallNowMain(dev, act) ==
    IF dev \/ act = "throws" THEN [quit |-> FALSE, msg |-> InstallReply(FALSE)]
    ELSE IF dialogResponseMain(act) = 0 THEN [quit |-> TRUE, msg |-> InstallReply(TRUE)]
    ELSE [quit |-> FALSE, msg |-> InstallReply(FALSE)]

\* the same handler in the older main process: no development mode, no
\* try and catch
updateInstallNowOlder(act) ==
    IF act = "throws" THEN [quit |-> FALSE, msg |-> Rejected("installRejected")]
    ELSE IF dialogResponseOlder(act) = 0 THEN [quit |-> TRUE, msg |-> InstallReply(TRUE)]
    ELSE [quit |-> FALSE, msg |-> InstallReply(FALSE)]

updateInstallNow(host, dev, act) ==
    IF host = "main.cjs" THEN updateInstallNowMain(dev, act) ELSE updateInstallNowOlder(act)

\* checkUpdates after the await: the status it sets
checkUpdatesStatus_silent(msg) ==
    IF msg.kind = "checkRejected" THEN "checking"
    ELSE IF ~msg.ok THEN "checking"
    ELSE IF msg.newer THEN "available"
    ELSE "none"

checkUpdatesStatus(msg) ==
    IF msg.kind = "checkRejected" THEN "error"
    ELSE IF ~msg.ok THEN "error"
    ELSE IF msg.newer THEN "available"
    ELSE "none"

\* installNow after the await
installNowStatus(status, msg) ==
    IF msg.kind = "installRejected" THEN "error"
    ELSE IF ~msg.ok THEN "error"
    ELSE status

\* the SettingsPage is shown: status after the effect of its first render
InitUpdater ==
    \E bridge \in BOOLEAN, dev \in BOOLEAN, host \in HostFiles :
        /\ ~bridge => (~dev /\ host = "main.cjs")
        /\ updater = Updater(bridge, dev, host, IF bridge THEN "idle" ELSE "none")
        /\ confirm = NoConfirm
        /\ employees = <<>>
        /\ persisted = saveEmployees(<<>>)
        /\ nextId = FirstNewId
        /\ now = StartNow
        /\ tz = 0
        /\ last = Op("mount", 0, "", 0)
        /\ probe = NoProbe
        /\ stores = <<>>
        /\ storesSlot = saveStores(<<>>)

Running == updater.installs = 0

Room(k) == Len(updater.channel) + k <= MaxChannel

\* the button Check for updates
CheckUpdates ==
    /\ Running
    /\ updater.awaiting = "none"
    /\ updater' = IF ~updater.bridge
                  THEN [updater EXCEPT !.status = "error"]
                  ELSE [updater EXCEPT !.status = "checking",
                                       !.awaiting = "check",
                                       !.request = "check"]
    /\ last' = Op("checkUpdates", 0, IF updater.bridge THEN "sent" ELSE "no bridge", 0)
    /\ UNCHANGED <<employees, persisted, nextId, now, tz, probe, stores, storesSlot, confirm>>

\* the button Install & Restart, shown in status ready only
InstallNow ==
    /\ Running
    /\ updater.bridge
    /\ updater.status = "ready"
    /\ updater.awaiting = "none"
    /\ updater' = [updater EXCEPT !.awaiting = "install", !.request = "install"]
    /\ last' = Op("installNow", 0, "sent", 0)
    /\ UNCHANGED <<employees, persisted, nextId, now, tz, probe, stores, storesSlot, confirm>>

\* the next message reaches the renderer: the onStatus callback, or the
\* continuation of checkUpdates or installNow
Receive ==
    /\ Running
    /\ updater.channel # <<>>
    /\ LET msg == Head(updater.channel)
       IN  /\ updater' =
                 IF msg.kind = "status"
                 THEN [updater EXCEPT !.channel = Tail(@), !.status = msg.state]
                 ELSE IF msg.kind \in {"checkReply", "checkRejected"}
                 THEN [updater EXCEPT !.channel = Tail(@), !.awaiting = "none",
                                      !.status = checkUpdatesStatus(msg)]
                 ELSE [updater EXCEPT !.channel = Tail(@), !.awaiting = "none",
                                      !.status = installNowStatus(updater.status, msg)]
           /\ last' = Op("receive", 0, msg.kind, IF msg.ok THEN 1 ELSE 0)
    /\ UNCHANGED <<employees, persisted, nextId, now, tz, probe, stores, storesSlot, confirm>>

\* the check after did-finish-load or of the six-hour timer; main.cjs sets
\* neither up in development mode
HostSilentCheck ==
    /\ Running
    /\ updater.bridge
    /\ updater.host = "main.cjs" => ~updater.dev
    /\ ~updater.checking
    /\ Room(1)
    /\ updater' = [updater EXCEPT !.checking = TRUE,
                                  !.channel = Append(@, StatusMsg("checking"))]
    /\ last' = Op("checkForUpdates", 0, "", 0)
    /\ UNCHANGED <<employees, persisted, nextId, now, tz, probe, stores, storesSlot, confirm>>

\* the handler of update:check is entered: in development mode main.cjs
\* answers at once, otherwise the handler awaits checkForUpdates
HostTakeCheck ==
    /\ Running
    /\ updater.request = "check"
    /\ Room(1)
    /\ IF updater.host = "main.cjs" /\ updater.dev
       THEN /\ updater' = [updater EXCEPT
                             !.request = "none",
                             !.channel = Append(@, updateCheck(updater.host, TRUE, "same"))]
            /\ last' = Op("update:check", 0, "dev", 0)
       ELSE /\ updater' = [updater EXCEPT
                             !.request = "none",
                             !.manual = "started",
                             !.checking = TRUE,
                             !.channel = IF updater.checking THEN @
                                         ELSE Append(@, StatusMsg("checking"))]
            /\ last' = Op("update:check", 0, "started", 0)
    /\ UNCHANGED <<employees, persisted, nextId, now, tz, probe, stores, storesSlot, confirm>>

\* the invoke fails without the handler having run
HostRejectsCheck ==
    /\ Running
    /\ updater.request = "check"
    /\ Room(1)
    /\ updater' = [updater EXCEPT !.request = "none",
                                  !.channel = Append(@, Rejected("checkRejected"))]
    /\ last' = Op("invoke", 0, "rejected", 0)
    /\ UNCHANGED <<employees, persisted, nextId, now, tz, probe, stores, storesSlot, confirm>>

\* checkForUpdates comes to its end: the event of the outcome is sent, a
\* newer version starts to download (autoDownload)
HostCheckSettles(outcome) ==
    /\ Running
    /\ updater.checking
    /\ Room(1)
    /\ updater' = [updater EXCEPT
                     !.checking = FALSE,
                     !.manual = IF @ = "started" THEN outcome ELSE @,
                     !.download = IF outcome = "newer" /\ @ = "none" THEN "running" ELSE @,
                     !.channel = Append(@, StatusMsg(CASE outcome = "newer" -> "available"
                                                       [] outcome = "same" -> "none"
                                                       [] OTHER -> "error"))]
    /\ last' = Op("checkForUpdates", 0, outcome, 0)
    /\ UNCHANGED <<employees, persisted, nextId, now, tz, probe, stores, storesSlot, confirm>>

\* the handler of update:check returns
HostReplyCheck ==
    /\ Running
    /\ updater.manual \in CheckOutcomes
    /\ Room(1)
    /\ updater' = [updater EXCEPT
                     !.manual = "none",
                     !.channel = Append(@, updateCheck(updater.host, updater.dev, updater.manual))]
    /\ last' = Op("update:check", 0, updater.manual, 0)
    /\ UNCHANGED <<employees, persisted, nextId, now, tz, probe, stores, storesSlot, confirm>>

HostDownloadProgress ==
    /\ Running
    /\ updater.download = "running"
    /\ Room(1)
    /\ updater' = [updater EXCEPT !.channel = Append(@, StatusMsg("downloading"))]
    /\ last' = Op("download-progress", 0, "", 0)
    /\ UNCHANGED <<employees, persisted, nextId, now, tz, probe, stores, storesSlot, confirm>>

HostDownloadDone ==
    /\ Running
    /\ updater.download = "running"
    /\ Room(1)
    /\ updater' = [updater EXCEPT !.download = "done",
                                  !.channel = Append(@, StatusMsg("ready"))]
    /\ last' = Op("update-downloaded", 0, "", 0)
    /\ UNCHANGED <<employees, persisted, nextId, now, tz, probe, stores, storesSlot, confirm>>

\* the handler of update:installNow, from its entry to its return
HostTakeInstall(act) ==
    LET res == updateInstallNow(updater.host, updater.dev, act)
    IN  /\ Running
        /\ updater.request = "install"
        /\ Room(1)
        /\ updater' = [updater EXCEPT
                         !.request = "none",
                         !.installs = IF res.quit THEN @ + 1 ELSE @,
                         !.channel = Append(@, res.msg)]
        /\ last' = Op("update:installNow", 0, act, 0)
        /\ UNCHANGED <<employees, persisted, nextId, now, tz, probe, stores, storesSlot, confirm>>

NextUpdater ==
    \/ CheckUpdates
    \/ InstallNow
    \/ Receive
    \/ HostSilentCheck
    \/ HostTakeCheck
    \/ HostRejectsCheck
    \/ \E outcome \in CheckOutcomes : HostCheckSettles(outcome)
    \/ HostReplyCheck
    \/ HostDownloadProgress
    \/ HostDownloadDone
    \/ \E act \in DialogActs : HostTakeInstall(act)

SpecUpdater == InitUpdater /\ [][NextUpdater]_vars

\* ================================================================== claims
\* the policy as the specification states it, independent of the code
PolicyTable ==
    [ type \in InfractionType |->
        IF type \in {"Call Out (After shift starts)", "No Call / No Show"} THEN 8
        ELSE IF type = "Call Out (Prior to shift)" THEN 3
        ELSE IF type \in {"Tardy (60+ min)", "Early Departure (60+ min)",
                          "Late Return (60+ min)"} THEN 2
        ELSE 1 ]

StatusOf(t) ==
    IF t = NaN THEN "OK"
    ELSE IF t < 6 THEN "OK"
    ELSE IF t < 8 THEN "First Written Warning"
    ELSE IF t < 12 THEN "Final Written Warning"
    ELSE "Termination"

RECURSIVE SumOf(_)
SumOf(infractions) ==
    IF infractions = <<>> THEN 0
    ELSE Plus(Head(infractions).points, SumOf(Tail(infractions)))

Rows(emps, rowId) == { i \in 1..Len(emps) : emps[i].id = rowId }

InfIds(infractions) == { infractions[j].id : j \in 1..Len(infractions) }

\* C1: in every reachable state no two employee records share the same
\* non-empty external employee identifier.
C1_UniqueExternalIds ==
    \A i, j \in 1..Len(employees) :
        (i # j /\ employees[i].employeeId # <<>>)
            => employees[i].employeeId # employees[j].employeeId

\* C2: in every state, and across every add and delete of an infraction,
\* the total on an employee's page is the sum of the points of the
\* infractions now in the list and the status is the classification of that
\* total: an add raises the total by the points of the added category, a
\* delete leaves the sum of what remains.
TotalsAreLive(emps) ==
    \A i \in 1..Len(emps) :
        /\ EmployeePageTotal(emps[i]) = SumOf(emps[i].infractions)
        /\ EmployeePageStatus(emps[i]) = StatusOf(SumOf(emps[i].infractions))

C2_TotalAndStatusFollowList ==
    [][ /\ TotalsAreLive(employees)
        /\ TotalsAreLive(employees')
        /\ last'.op = "addInfraction" =>
            \A rowId \in RowIds, type \in TypeInputs, date \in DateInputs,
               store \in StoreInputs, reason \in ReasonInputs :
              (last'.arg = rowId /\ AddInfraction(rowId, type, date, store, reason)) =>
                  \A i \in Rows(employees, rowId) :
                      /\ EmployeePageTotal(employees'[i])
                            = Plus(EmployeePageTotal(employees[i]), PolicyTable[type])
                      /\ EmployeePageStatus(employees'[i])
                            = StatusOf(Plus(SumOf(employees[i].infractions), PolicyTable[type]))
        /\ last'.op = "deleteInfraction" =>
            \A rowId \in RowIds, infractionId \in InfractionIds :
              (last'.arg = rowId /\ DeleteInfraction(rowId, infractionId)) =>
                  \A i \in Rows(employees, rowId) :
                      LET Other(inf) == inf.id # infractionId
                          rest == SelectSeq(employees[i].infractions, Other)
                      IN  /\ EmployeePageTotal(employees'[i]) = SumOf(rest)
                          /\ EmployeePageStatus(employees'[i]) = StatusOf(SumOf(rest))
      ]_vars

\* an employee who went 8, 9, 17 was at Termination and is back at Final
\* Written Warning after one of the 8-point infractions was deleted
C2_Witness ==
    /\ last.op = "deleteInfraction"
    /\ last.n = 17
    /\ \E i \in 1..Len(employees) :
          /\ employees[i].id = last.arg
          /\ Len(employees[i].infractions) = 2
          /\ employees[i].infractions[1].type = "Tardy (16-59 min)"
          /\ employees[i].infractions[2].type = "No Call / No Show"
          /\ EmployeePageTotal(employees[i]) = 9
          /\ EmployeePageStatus(employees[i]) = "Final Written Warning"

\* C3: statusForPoints(t) is Termination for t >= 12, Final Written Warning
\* for 8 <= t < 12, First Written Warning for 6 <= t < 8 and OK for t < 6;
\* 5, 6, 7, 8, 11, 12 give OK, First, First, Final, Final, Termination.
C3_StatusThresholds ==
    probe.fn = "statusForPoints" =>
        LET t == probe.total
            r == probe.status
        IN  /\ t >= 12 => r = "Termination"
            /\ (8 <= t /\ t < 12) => r = "Final Written Warning"
            /\ (6 <= t /\ t < 8) => r = "First Written Warning"
            /\ t < 6 => r = "OK"
            /\ t = 5 => r = "OK"
            /\ t \in {6, 7} => r = "First Written Warning"
            /\ t \in {8, 11} => r = "Final Written Warning"
            /\ t = 12 => r = "Termination"

C3_Witness ==
    /\ probe.fn = "statusForPoints"
    /\ probe.total = 12
    /\ probe.status = "Termination"

\* C4: pointsForType returns the policy-table value for each of the nine
\* categories.
C4_PointsMatchPolicyTable ==
    probe.fn = "pointsForType" =>
        /\ probe.type \in InfractionType
        /\ probe.points = PolicyTable[probe.type]
        /\ probe.points \in {1, 2, 3, 8}

C4_Witness ==
    /\ probe.fn = "pointsForType"
    /\ probe.type = "No Call / No Show"
    /\ probe.points = 8

\* C5: addEmployee(name, rawId) leaves the collection as it is whenever the
\* name is empty after trimming, rawId has no digit, or the digits of rawId
\* are the external id of an existing employee.
C5_RejectedAddChangesNothing ==
    [][ \/ (employees' = employees /\ persisted' = persisted)
        \/ \A name \in NameInputs, raw \in IdInputs :
            ( /\ last'.op = "addEmployee"
              /\ \/ trim(name) = <<>>
                 \/ \A k \in 1..Len(raw) : ~IsDigit(raw[k])
                 \/ \E i \in 1..Len(employees) :
                       employees[i].employeeId = digitsOnly(raw)
              /\ AddEmployee(name, raw) )
            => /\ employees' = employees
               /\ persisted' = persisted
      ]_vars

C5_Witness ==
    /\ last.op = "addEmployee"
    /\ last.out = "duplicate"
    /\ Len(employees) >= 1

\* C6: updateEmployeeId(rowId, raw) with digits that are the external id of
\* an employee with another row id leaves the collection as it is; digits
\* that only the target row itself holds are not a collision: the update is
\* carried out and the row holds those digits afterwards.
C6_CollisionChangesNothing ==
    [][ \A rowId \in RowIds, raw \in IdInputs :
            LET eid == digitsOnly(raw)
                heldByOther == \E i \in 1..Len(employees) :
                                  employees[i].employeeId = eid /\ employees[i].id # rowId
                heldBySelf == \E i \in Rows(employees, rowId) : employees[i].employeeId = eid
            IN  /\ (last'.op = "updateEmployeeId" /\ last'.arg = rowId
                       /\ eid # <<>> /\ heldByOther
                       /\ UpdateEmployeeId(rowId, raw))
                      => (employees' = employees /\ persisted' = persisted)
                /\ (last'.op = "updateEmployeeId" /\ last'.arg = rowId
                       /\ eid # <<>> /\ heldBySelf /\ ~heldByOther
                       /\ UpdateEmployeeId(rowId, raw))
                      => /\ last'.out = "set"
                         /\ Len(employees') = Len(employees)
                         /\ \A i \in Rows(employees, rowId) : employees'[i].employeeId = eid
      ]_vars

C6_Witness ==
    /\ last.op = "updateEmployeeId"
    /\ last.out = "collision"
    /\ \E i, j \in 1..Len(employees) :
          /\ employees[i].id = last.arg
          /\ employees[j].id # last.arg
          /\ employees[j].employeeId # <<>>

RECURSIVE SumLens(_, _)
SumLens(emps, k) ==
    IF k = 0 THEN 0 ELSE SumLens(emps, k - 1) + Len(emps[k].infractions)

RecordCount(emps) == Len(emps) + SumLens(emps, Len(emps))

\* C7: deleteEmployee(rowId) removes exactly the record with row id rowId and
\* its infractions: one employee less, 1 + its infractions records less, all
\* other employees unchanged and in their order.
C7_DeleteRemovesExactlyOne ==
    [][ \A rowId \in RowIds :
            (DeleteEmployee(rowId) /\ Rows(employees, rowId) # {})
            => LET k == FirstRow(rowId)
                   Other(e) == e.id # rowId
               IN  /\ Len(employees') = Len(employees) - 1
                   /\ RecordCount(employees')
                         = RecordCount(employees) - (1 + Len(employees[k].infractions))
                   /\ employees' = SelectSeq(employees, Other)
      ]_vars

\* C8: every infraction created by the add operation with category c is
\* stored with the policy-table points of c.
C8_AddedPointsMatchCategory ==
    [][ last'.op = "addInfraction" =>
          \A rowId \in RowIds, type \in TypeInputs, date \in DateInputs,
             store \in StoreInputs, reason \in ReasonInputs :
            (last'.arg = rowId /\ AddInfraction(rowId, type, date, store, reason)) =>
                \A i \in 1..Len(employees') :
                    \A j \in 1..Len(employees'[i].infractions) :
                        LET inf == employees'[i].infractions[j]
                        IN  inf.id >= nextId =>
                                /\ inf.type = type
                                /\ inf.points = PolicyTable[type]
      ]_vars

C8_Witness ==
    /\ last.op = "addInfraction"
    /\ \E i \in 1..Len(employees) :
          /\ employees[i].id = last.arg
          /\ employees[i].infractions # <<>>
          /\ employees[i].infractions[1].id = nextId - 1
          /\ employees[i].infractions[1].type = "Call Out (After shift starts)"
          /\ employees[i].infractions[1].points = 8

\* C9: addInfraction(empRowId, inf) changes only the infraction list of the
\* employee with row id empRowId: the new infraction, with an id no
\* infraction had and newer than all of them, is at the head and the previous
\* infractions follow in their order; with no such employee nothing changes.
C9_AddPrependsAndFrames ==
    [][ last'.op = "addInfraction" =>
          \A rowId \in RowIds, type \in TypeInputs, date \in DateInputs,
             store \in StoreInputs, reason \in ReasonInputs :
            (last'.arg = rowId /\ AddInfraction(rowId, type, date, store, reason)) =>
                /\ Len(employees') = Len(employees)
                /\ \A i \in 1..Len(employees) :
                      IF employees[i].id = rowId
                      THEN LET new == employees'[i].infractions
                           IN  /\ Len(new) = Len(employees[i].infractions) + 1
                               /\ Tail(new) = employees[i].infractions
                               /\ Head(new).id \notin InfractionIds
                               /\ \A id \in InfIds(Tail(new)) : Head(new).id > id
                               /\ Head(new).date = date
                               /\ Head(new).store = store
                               /\ Head(new).reason = reason
                               /\ [employees'[i] EXCEPT !.infractions = Tail(new)] = employees[i]
                      ELSE employees'[i] = employees[i]
                /\ Rows(employees, rowId) = {} => employees' = employees
      ]_vars

C9_Witness ==
    /\ last.op = "addInfraction"
    /\ Len(employees) = 2
    /\ employees[1].id = last.arg
    /\ employees[2].id # last.arg
    /\ Len(employees[1].infractions) >= 2
    /\ employees[1].infractions[1].id = nextId - 1
    /\ employees[2].infractions # <<>>

\* C10: the points of an infraction never change while the infraction exists:
\* whatever the step (add, delete, sweep, save and load), an infraction that
\* is in the same employee's list before and after it has the same points.
C10_PointsNeverChange ==
    [][ \A i \in 1..Len(employees), k \in 1..Len(employees') :
            employees[i].id = employees'[k].id =>
                \A j \in 1..Len(employees[i].infractions),
                   m \in 1..Len(employees'[k].infractions) :
                    employees[i].infractions[j].id = employees'[k].infractions[m].id
                        => employees[i].infractions[j].points
                              = employees'[k].infractions[m].points
      ]_vars

\* C11: deleteInfraction(empRowId, infractionId) removes exactly one
\* infraction, the one with that id, from the employee with row id empRowId
\* and keeps the others in their order; every other employee is untouched,
\* whatever ids its infractions have, and nothing changes when the employee or
\* the infraction is not there.
C11_DeleteInfractionRemovesOne ==
    [][ \A rowId \in RowIds, infractionId \in InfractionIds :
            ( /\ last'.op = "deleteInfraction"
              /\ last'.arg = rowId
              /\ DeleteInfraction(rowId, infractionId) )
            => /\ Len(employees') = Len(employees)
               /\ \A i \in 1..Len(employees) :
                     LET old == employees[i].infractions
                         Other(inf) == inf.id # infractionId
                     IN  IF employees[i].id = rowId /\ infractionId \in InfIds(old)
                         THEN /\ Len(employees'[i].infractions) = Len(old) - 1
                              /\ employees'[i].infractions = SelectSeq(old, Other)
                              /\ [employees'[i] EXCEPT !.infractions = old] = employees[i]
                         ELSE employees'[i] = employees[i]
      ]_vars

LocalToday(nowH, tzH) == FloorDiv(nowH + tzH, 24)

\* C12: the retention filter works on calendar days with an exclusive
\* cutoff: whenever it runs (at any hour, under any offset of the local
\* clock) an infraction dated today or exactly AUTO_REMOVE_DAYS days before
\* today is kept and one dated AUTO_REMOVE_DAYS + 1 days before today is
\* removed.
C12_RetentionBoundary ==
    [][ last'.op = "mount" =>
            LET today == LocalToday(now', tz')
            IN  \A i \in 1..Len(employees), k \in 1..Len(employees') :
                    employees[i].id = employees'[k].id =>
                        \A j \in 1..Len(employees[i].infractions) :
                            LET inf  == employees[i].infractions[j]
                                kept == inf.id \in InfIds(employees'[k].infractions)
                            IN  /\ inf.date \in {today, today - AUTO_REMOVE_DAYS} => kept
                                /\ inf.date = today - AUTO_REMOVE_DAYS - 1 => ~kept
      ]_vars

\* an infraction whose date is strictly older than the retention window
Expired(inf, nowH, tzH) ==
    /\ inf.date # InvalidDate
    /\ inf.date < LocalToday(nowH, tzH) - AUTO_REMOVE_DAYS

ExpiredInMemory ==
    \E i \in 1..Len(employees) :
        \E j \in 1..Len(employees[i].infractions) :
            Expired(employees[i].infractions[j], now, tz)

ExpiredInStorage ==
    /\ persisted.kind = "array"
    /\ \E i \in 1..Len(persisted.items) :
          /\ persisted.items[i].infractions # <<>>
          /\ \E j \in 1..Len(persisted.items[i].infractions[1]) :
                LET x == persisted.items[i].infractions[1][j]
                IN  x.date # <<>> /\ Expired([date |-> x.date[1]], now, tz)

\* C13: while the application stays open, every infraction that is or
\* becomes older than the retention window is eventually removed from memory
\* and from the storage slot.
C13_ExpiredEventuallySwept ==
    (ExpiredInMemory \/ ExpiredInStorage) ~> ~(ExpiredInMemory \/ ExpiredInStorage)

\* a collection as the store operations build it: distinct row ids, names
\* that are not blank, points that are numbers
WellFormed(emps) ==
    /\ \A i, j \in 1..Len(emps) : i # j => emps[i].id # emps[j].id
    /\ \A i \in 1..Len(emps) :
          /\ trim(emps[i].name) # <<>>
          /\ \A j \in 1..Len(emps[i].infractions) :
                /\ emps[i].infractions[j].points # NaN
                /\ emps[i].infractions[j].type \in InfractionType

\* C14: saving a well-formed collection that the store operations have
\* produced and loading it at startup (loadEmployees, then
\* normalizeEmployees) gives the same collection: the same employees in the
\* same order, with the same row ids, external ids, names and infractions.
C14_RoundTrip ==
    WellFormed(employees) =>
        normalizeEmployees(loadEmployees(saveEmployees(employees), nextId, now, tz))
            = employees

IsLoadedInfraction(inf) ==
    /\ inf.id \in Int
    /\ inf.points \in Int
    /\ inf.date \in Int
    /\ DOMAIN inf = {"id", "type", "points", "date", "store", "reason"}

IsLoadedEmployee(e) ==
    /\ DOMAIN e = {"id", "employeeId", "name", "infractions"}
    /\ e.id \in Int
    /\ \A k \in 1..Len(e.employeeId) : IsDigit(e.employeeId[k])
    /\ Len(e.name) >= 0
    /\ \A j \in 1..Len(e.infractions) : IsLoadedInfraction(e.infractions[j])

\* C15: loadEmployees always returns: an empty collection when the slot is
\* absent or empty, is no JSON, or is JSON that is no array; and for an
\* array, whatever its elements lack or hold, one employee record for each
\* element.
C15_LoadNeverRaises ==
    [][ last'.op = "loadEmployees" =>
            /\ persisted.kind \in {"missing", "invalid", "other"} => employees' = <<>>
            /\ persisted.kind = "array" =>
                  /\ Len(employees') = Len(persisted.items)
                  /\ \A k \in 1..Len(employees') : IsLoadedEmployee(employees'[k])
      ]_vars

C15_Witness ==
    /\ last.op = "loadEmployees"
    /\ persisted = Doc("array", << RawEmp(<<>>, <<>>, <<>>, <<>>), RawEmp(<<>>, <<>>, <<>>, <<>>) >>)
    /\ Len(employees) = 2
    /\ employees[1].name = DefaultName
    /\ employees[1].employeeId = <<>>
    /\ employees[2].id = employees[1].id + 1

\* JSON.stringify of the collection, field by field (NaN is written null)
Serialized(emps) ==
    Doc("array",
        [ i \in 1..Len(emps) |->
            [id          |-> <<emps[i].id>>,
             employeeId  |-> <<emps[i].employeeId>>,
             name        |-> <<emps[i].name>>,
             infractions |->
                << [ j \in 1..Len(emps[i].infractions) |->
                       LET inf == emps[i].infractions[j]
                       IN  [id     |-> <<inf.id>>,
                            type   |-> <<inf.type>>,
                            points |-> IF inf.points = NaN THEN <<>> ELSE <<inf.points>>,
                            date   |-> <<inf.date>>,
                            store  |-> <<inf.store>>,
                            reason |-> <<inf.reason>>] ] >>] ])

\* C16: after every operation on the collection, the retention sweep of the
\* startup included, the storage slot holds the serialization of the
\* collection now in memory; and the slot is written only when the collection
\* is replaced.
C16_PersistedIsCurrent ==
    /\ [](persisted = Serialized(employees))
    /\ [][employees' = employees => persisted' = persisted]_vars

C16_Witness ==
    /\ last.op = "deleteEmployee"
    /\ Len(employees) = last.n - 1
    /\ Len(employees) >= 1
    /\ persisted.kind = "array"
    /\ Len(persisted.items) = Len(employees)
    /\ persisted = Serialized(employees)

\* the records of the first k that are the first holder of a non-empty
\* digit-stripped external id, in their order, with that id
RECURSIVE FirstHolders(_, _)
FirstHolders(data, k) ==
    IF k = 0 THEN <<>>
    ELSE LET eid == digitsOnly(data[k].employeeId)
         IN  IF /\ eid # <<>>
                /\ \A m \in 1..(k - 1) : digitsOnly(data[m].employeeId) # eid
             THEN Append(FirstHolders(data, k - 1), [data[k] EXCEPT !.employeeId = eid])
             ELSE FirstHolders(data, k - 1)

DistinctNonEmptyIds(emps) ==
    /\ \A i \in 1..Len(emps) : emps[i].employeeId # <<>>
    /\ \A i, j \in 1..Len(emps) : i # j => emps[i].employeeId # emps[j].employeeId

\* C17: normalizeEmployees returns, in input order, the first record for
\* each distinct non-empty digit-stripped external id, with that id and
\* otherwise as it was; a record is discarded exactly when its digit-stripped
\* external id is empty, wherever it stands, or is that of an earlier record;
\* the result has pairwise distinct non-empty external ids.
C17_NormalizeKeepsFirstHolders ==
    [][ last'.op = "normalizeEmployees" =>
            /\ employees' = FirstHolders(employees, Len(employees))
            /\ DistinctNonEmptyIds(employees')
            /\ Len(employees') =
                  Cardinality({ digitsOnly(employees[k].employeeId) : k \in 1..Len(employees) }
                              \ {<<>>})
      ]_vars

\* a record without digits in front of one with digits: only the second is
\* returned
C17_Witness ==
    /\ last.op = "normalizeEmployees"
    /\ persisted = Doc("array", << RawEmp(<<1>>, << <<"x">> >>, <<>>, <<>>),
                                   RawEmp(<<2>>, << <<"x", "1">> >>, <<>>, <<>>) >>)
    /\ Len(employees) = 1
    /\ employees[1].id = 2
    /\ employees[1].employeeId = <<"1">>

\* C17 as stated: a record is discarded only if it comes later in the
\* sequence than a kept record and its external id is empty or already seen.
C17_DiscardedOnlyAfterKept ==
    [][ last'.op = "normalizeEmployees" =>
            LET Eid(k)  == digitsOnly(employees[k].employeeId)
                Kept(k) == \E p \in 1..Len(employees') :
                              employees'[p] = [employees[k] EXCEPT !.employeeId = Eid(k)]
            IN  /\ DistinctNonEmptyIds(employees')
                /\ \A k \in 1..Len(employees) :
                      ~Kept(k) =>
                          /\ \E m \in 1..(k - 1) : Kept(m)
                          /\ \/ Eid(k) = <<>>
                             \/ \E m \in 1..(k - 1) : Eid(m) = Eid(k)
      ]_vars

LoadedInfractions ==
    UNION { { employees[i].infractions[j] : j \in 1..Len(employees[i].infractions) } :
            i \in 1..Len(employees) }

\* C18: after the load every infraction in memory has one of the nine
\* categories and a numeric point value: a stored category that is missing
\* or is none of the nine is replaced by Tardy (16-59 min).
C18_LoadedCategoriesAreEnumerated ==
    last.op \in {"loadEmployees", "normalizeEmployees"} =>
        \A inf \in LoadedInfractions :
            /\ inf.type \in InfractionType
            /\ inf.points # NaN

\* C19: in every state the store-tag list holds no value twice, and every
\* entry is a non-empty text without leading or trailing whitespace.
C19_StoreTagsCleanAndUnique ==
    /\ \A i, j \in 1..Len(stores) : i # j => stores[i] # stores[j]
    /\ \A i \in 1..Len(stores) :
          /\ stores[i] # <<>>
          /\ ~IsSpace(stores[i][1])
          /\ ~IsSpace(stores[i][Len(stores[i])])

\* C20: in every state, whatever the storage slot held at startup, no two
\* employee records have the same row id; and no operation changes the row
\* id of a record.
C20_RowIdsUniqueAndStable ==
    /\ [](\A i, j \in 1..Len(employees) : i # j => employees[i].id # employees[j].id)
    /\ [][ last'.op \in {"updateEmployeeName", "updateEmployeeId"} =>
              /\ Len(employees') = Len(employees)
              /\ \A i \in 1..Len(employees) : employees'[i].id = employees[i].id
         ]_vars

\* C21: in every state (after the load, and after addEmployee and
\* updateEmployeeName) the name of every employee record is non-empty once
\* leading and trailing whitespace is removed.
C21_NamesNotBlank ==
    \A i \in 1..Len(employees) : trim(employees[i].name) # <<>>

\* C22: an addEmployee(name, rawId) that is accepted (name not blank, rawId
\* with a digit, digits held by no employee) puts exactly one new record at
\* the head: trimmed name, the digits of rawId, an internal id that no
\* existing record has, no infractions; the records that were there follow
\* unchanged and in their order.
C22_AddPutsOneNewAtHead ==
    [][ last'.op = "addEmployee" =>
          \A raw \in IdInputs :
            LET digits == SelectSeq(raw, IsDigit)
            IN  ( /\ digits # <<>>
                  /\ \A i \in 1..Len(employees) : employees[i].employeeId # digits )
                => \A name \in NameInputs :
                     (trim(name) # <<>> /\ AddEmployee(name, raw))
                     => /\ Len(employees') = Len(employees) + 1
                        /\ employees'[1].name = trim(name)
                        /\ employees'[1].employeeId = digits
                        /\ employees'[1].infractions = <<>>
                        /\ \A i \in 1..Len(employees) : employees[i].id # employees'[1].id
                        /\ Tail(employees') = employees
      ]_vars

\* an accepted add in front of an employee that was there
C22_Witness ==
    /\ last.op = "addEmployee"
    /\ last.out = "added"
    /\ Len(employees) = 2
    /\ employees[1].infractions = <<>>
    /\ employees[1].id = nextId - 1
    /\ employees[2].id < FirstNewId

C24_RenameOnlyTheName ==
    [][ last'.op = "updateEmployeeName" =>
          \A rowId \in RowIds, name \in NameInputs :
            (last'.arg = rowId /\ UpdateEmployeeName(rowId, name))
            => IF trim(name) = <<>>
               THEN employees' = employees /\ persisted' = persisted
               ELSE /\ Len(employees') = Len(employees)
                    /\ \A i \in 1..Len(employees) :
                          IF employees[i].id = rowId
                          THEN employees'[i] = [employees[i] EXCEPT !.name = trim(name)]
                          ELSE employees'[i] = employees[i]
      ]_vars

\* the second of two employees renamed from "aa" to "a", the first as it was
C24_Witness ==
    /\ last.op = "updateEmployeeName"
    /\ last.out = "renamed"
    /\ last.arg = 3
    /\ Len(employees) = 2
    /\ employees[1].id = 1
    /\ employees[1].employeeId = <<"1">>
    /\ employees[2].id = 3
    /\ employees[2].name = <<"a">>
    /\ employees[2].employeeId = <<"1", "1">>

\* C28: closing the application and starting it again loses no employee:
\* every employee in memory before the restart, an employee whose ID field
\* was emptied included, is in memory after it with the same row id. (Only
\* deleteEmployee removes an employee.)
C28_RestartKeepsEveryEmployee ==
    [][ (\E delay \in RestartDelays : Restart(delay)) =>
            \A i \in 1..Len(employees) :
                \E j \in 1..Len(employees') : employees'[j].id = employees[i].id
      ]_vars

\* C26: a retention sweep that finds no expired infraction keeps the very
\* collection it was given and causes no write of the slot; a sweep that
\* finds some replaces the infraction list of exactly the employees that
\* lost an infraction, by the list without the expired ones, and leaves
\* every other employee as it was.
C26_SweepReplacesOnlyWhatChanged ==
    [][ last'.op = "sweep" =>
          LET Old(inf)  == isOlderThanDays(inf.date, AUTO_REMOVE_DAYS, now, tz)
              Young(inf) == ~Old(inf)
              Lost(i)   == \E j \in 1..Len(employees[i].infractions) :
                              Old(employees[i].infractions[j])
          IN  IF \A i \in 1..Len(employees) : ~Lost(i)
              THEN /\ employees' = employees
                   /\ persisted' = persisted
                   /\ last'.out = "same"
                   /\ last'.n = 0
              ELSE /\ Len(employees') = Len(employees)
                   /\ last'.out = "replaced"
                   /\ persisted' = Serialized(employees')
                   /\ \A i \in 1..Len(employees) :
                         IF Lost(i)
                         THEN employees'[i] =
                                [employees[i] EXCEPT
                                   !.infractions = SelectSeq(employees[i].infractions, Young)]
                         ELSE employees'[i] = employees[i]
      ]_vars

\* a sweep that took the older of two infractions from the second employee
\* and nothing from the first, which has two of the day of the start
C26_Witness ==
    /\ last.op = "sweep"
    /\ last.out = "replaced"
    /\ last.n = 1
    /\ Len(employees) = 2
    /\ Len(employees[1].infractions) = 2
    /\ Len(employees[2].infractions) = 1
    /\ employees[2].infractions[1].id = 4
    /\ employees[2].infractions[1].date = todayISO(StartNow)

\* a sweep that found nothing in a collection with infractions
C26_WitnessNothingFound ==
    /\ last.op = "sweep"
    /\ last.out = "same"
    /\ Len(employees) = 2
    /\ employees[1].infractions # <<>>

\* C25: mutations take effect in the order they are dispatched and none is
\* lost: a confirmed deletion of an employee or of an infraction removes its
\* target from the collection as it is when the deletion is confirmed, so
\* that what was changed between the opening of the dialog and the
\* confirmation is still there afterwards.
C25_ConfirmedDeleteKeepsLaterMutations ==
    [][ ConfirmDelete =>
          employees' = IF confirm.kind = "employee"
                       THEN deleteEmployee(employees, confirm.rowId)
                       ELSE deleteInfraction(employees, confirm.rowId, confirm.infractionId)
      ]_vars

\* C27: a manual update check that fails ends in status error and the page
\* goes on: without the bridge, when the reply of check() has ok = false,
\* and when check() rejects. In electron/main.cjs the handler of
\* update:check answers { ok: false, message } in development mode and
\* whenever checkForUpdates throws; it never lets the invoke reject.
C27_FailedCheckEndsInError ==
    [][ /\ (last'.op = "checkUpdates" /\ ~updater.bridge)
              => /\ updater'.status = "error"
                 /\ updater'.awaiting = "none"
        /\ (last'.op = "receive" /\ last'.out = "checkRejected")
              => /\ updater'.status = "error"
                 /\ updater'.awaiting = "none"
        /\ (last'.op = "receive" /\ last'.out = "checkReply" /\ last'.n = 0)
              => /\ updater'.status = "error"
                 /\ updater'.awaiting = "none"
        /\ (last'.op = "update:check" /\ updater.host = "main.cjs"
               /\ (updater.dev \/ last'.out = "throws"))
              => LET sent == updater'.channel[Len(updater'.channel)]
                 IN  /\ Len(updater'.channel) = Len(updater.channel) + 1
                     /\ sent.kind = "checkReply"
                     /\ ~sent.ok
      ]_vars

\* the reply of main.cjs in development mode has reached the page
C27_Witness ==
    /\ last.op = "receive"
    /\ last.out = "checkReply"
    /\ last.n = 0
    /\ updater.host = "main.cjs"
    /\ updater.dev
    /\ updater.status = "error"
    /\ updater.awaiting = "none"

\* a rejected check() has reached the page
C27_WitnessRejected ==
    /\ last.op = "receive"
    /\ last.out = "checkRejected"
    /\ updater.status = "error"

\* C29: once the status is ready, the reply (or the rejection) of a manual
\* check that was in flight does not take it away from ready.
C29_ReplyKeepsReady ==
    [][ ( /\ last'.op = "receive"
          /\ last'.out \in {"checkReply", "checkRejected"}
          /\ updater.status = "ready" )
        => updater'.status = "ready"
      ]_vars

\* C30: quitAndInstall is called only by the handler of update:installNow,
\* only outside development mode and only when the user chose Install &
\* Restart; in every other outcome of the handler (development mode,
\* Later, message box dismissed, exception) it is not called and the
\* handler answers { ok: false }.
C30_InstallOnlyOnConsent ==
    [][ /\ updater'.installs # updater.installs
              => /\ last'.op = "update:installNow"
                 /\ last'.out = "install"
                 /\ ~updater.dev
        /\ (last'.op = "update:installNow" /\ ~(last'.out = "install" /\ ~updater.dev))
              => /\ updater'.installs = updater.installs
                 /\ updater'.channel = Append(updater.channel, InstallReply(FALSE))
      ]_vars

====
